---------------------------- MODULE Spec2Model ----------------------------
(***************************************************************************)
(* A model of src/model.py: the day-stepped water balance `simulate`, the  *)
(* seasonal rainfall helper `get_monthly_rainfall`, and the process-wide   *)
(* generator of the `random` module that both of them use.                 *)
(*                                                                         *)
(* Numbers.  The program computes in floating point; the model computes    *)
(* the same expressions exactly, in fixed point:                           *)
(*   - a fraction of the config (runoff_coefficient, greywater_fraction,   *)
(*     greywater_recovery_rate, treatment_efficiency) is a number of       *)
(*     halves: 0, 1, 2 stand for 0.0, 0.5, 1.0;                            *)
(*   - an entry of MONTHLY_RAINFALL and a noise factor are numbers of      *)
(*     tenths: 12 stands for 1.2;                                          *)
(*   - a rainfall depth is a number of 1/500 mm (base * tenths * tenths    *)
(*     over the normalisation 5.0);                                        *)
(*   - every volume is a number of 1/2000 L (Unit), the common             *)
(*     denominator of rainfall * area * halves and of                      *)
(*     count * litres * halves * halves, times halves;                     *)
(*   - cost_per_litre_INR is a number of hundredths of a rupee.            *)
(***************************************************************************)
EXTENDS Integers, Sequences, FiniteSets, TLC

VARIABLES
  cfg,        \* the config dict handed to simulate
  rng,        \* state of the process-wide generator of module random
  run,        \* run[r]: locals, position and return value of invocation r
  doy,        \* argument day_of_year of a direct call of get_monthly_rainfall
  month,      \* the month that call selected (0: not called yet)
  rainfall    \* the rainfall numerator that call returned

vars == <<cfg, rng, run, doy, month, rainfall>>

----------------------------------------------------------------------------
(* Bounds of the model *)

MaxDays == 3
MaxHousehold == 2
MaxArea == 1
MaxDayOfYear == 400

Runs == {1, 2}

----------------------------------------------------------------------------
(* Arithmetic helpers *)

Min(a, b) == IF a <= b THEN a ELSE b
Max(a, b) == IF a >= b THEN a ELSE b

\* Python's round(): the quotient n / d to the nearest integer, ties to even.
RoundHalfEven(n, d) ==
  LET nn == IF d < 0 THEN -n ELSE n
      dd == IF d < 0 THEN -d ELSE d
      q  == nn \div dd
      r  == nn % dd
  IN  IF 2 * r < dd THEN q
      ELSE IF 2 * r > dd THEN q + 1
      ELSE IF q % 2 = 0 THEN q ELSE q + 1

\* 1 L in volume units.
Unit == 500 * 2 * 2

----------------------------------------------------------------------------
(* Program constants *)

\* MONTHLY_RAINFALL, in tenths.
MONTHLY_RAINFALL ==
  [m \in 1..12 |->
     CASE m = 1 -> 12 [] m = 2 -> 8  [] m = 3 -> 10 [] m = 4  -> 21
       [] m = 5 -> 35 [] m = 6 -> 42 [] m = 7 -> 58 [] m = 8  -> 61
       [] m = 9 -> 73 [] m = 10 -> 85 [] m = 11 -> 92 [] m = 12 -> 41]

\* random.seed(42)
Seed == 42

\* storage starts at capacity * 0.30: 3 tenths
StartTenths == 3

----------------------------------------------------------------------------
(* The generator of module random, abstracted to a cyclic stream: a state  *)
(* is a position in NoiseTable, a draw returns the entry there and moves   *)
(* on, seeding jumps to the position the seed fixes.  The entries are      *)
(* gauss(1.0, 0.15) values in tenths; gauss is unbounded, so one entry is  *)
(* negative.                                                               *)

NoiseTable == <<10, 8, 10, 13, -1, 9, 11, 12>>

RngPeriod == Len(NoiseTable)

RngStates == 0..(RngPeriod - 1)

SeedState(seed) == seed % RngPeriod

GaussNoise(g) == NoiseTable[g + 1]

Advance(g) == (g + 1) % RngPeriod


----------------------------------------------------------------------------
(* Helper functions of model.py *)

\* The month get_monthly_rainfall selects for a day of the year.
MonthOf(day_of_year) == Min(12, Max(1, (day_of_year \div 30) + 1))

\* The mutant of get_monthly_rainfall: the result is not floored at 0.
rainfall_unfloored(day_of_year, base, g) ==
  base * MONTHLY_RAINFALL[MonthOf(day_of_year)] * GaussNoise(g)

\* get_monthly_rainfall, drawing its noise from generator state g.
\* The result is in 1/500 mm: base * (tenths / 5.0) * tenths.
get_monthly_rainfall(day_of_year, base, g) ==
  Max(0, base * MONTHLY_RAINFALL[MonthOf(day_of_year)] * GaussNoise(g))

\* rainfall (1/500 mm) * area (m2) * rc (halves), in volume units
calculate_rainwater(rainfall_mm, area_m2, rc) == rainfall_mm * area_m2 * rc * 2

\* hh * daily_use (L) * gw_frac (halves) * gw_rec (halves), in volume units
calculate_greywater(hh, daily_use_L, gw_frac, gw_rec) ==
  (hh * daily_use_L * gw_frac) * gw_rec * (Unit \div 4)

\* raw (volume units, always even) * efficiency (halves)
apply_treatment(raw_litres, efficiency) == (raw_litres * efficiency) \div 2

----------------------------------------------------------------------------
(* simulate: the locals of one invocation *)

NoResult ==
  [total_rainwater_L |-> 0, total_greywater_L |-> 0, total_treated_L |-> 0,
   total_demand_L |-> 0, total_deficit_L |-> 0, total_overflow_L |-> 0,
   supply_rate_pct |-> 0, annual_cost_saved_INR |-> 0, co2_offset_kg |-> 0,
   avg_daily_recovery_L |-> 0, self_sufficiency_pct |-> 0]

\* An invocation that has not been made yet.
IdleRun ==
  [pc |-> "idle", day |-> 0, storage |-> 0, filled |-> 0, supply |-> 0,
   total_rainwater |-> 0, total_greywater |-> 0, total_treated |-> 0,
   total_demand |-> 0, total_deficit |-> 0, total_overflow |-> 0,
   daily_log |-> <<>>, result |-> NoResult]

\* storage = c["storage_capacity_L"] * 0.30
InitialStorage(c) == (c.storage_capacity_L * Unit * StartTenths) \div 10

\* The capacity in volume units.
Capacity(c) == c.storage_capacity_L * Unit

\* The mutant of Reseed: simulate does not seed the generator.
ReseedOmitted(g) == g

\* What random.seed(42) leaves in the generator, whatever state g it was in.
Reseed(g) == SeedState(Seed)

\* Lines 61-71: the accumulators, the tank at 30 % and the empty log.
StartedRun(c) ==
  [IdleRun EXCEPT !.pc = "loop", !.day = 1,
                  !.storage = InitialStorage(c), !.filled = InitialStorage(c)]

\* The mutant of Clamp: the inflow is added and never clamped.
ClampOmitted(level, capacity) == level

\* Lines 84-86: the tank after the inflow was added, clamped to the capacity.
Clamp(level, capacity) == IF level > capacity THEN capacity ELSE level

\* The mutant of Spill: the excess is dropped without being counted.
SpillDropped(level, capacity) == 0

\* Lines 84-85: what the clamp spills.
Spill(level, capacity) == IF level > capacity THEN level - capacity ELSE 0

\* Line 88
Supply(level, demand) == Min(level, demand)

\* The mutant of Deficit: the operands of the difference are swapped.
DeficitSwapped(demand, supply) == Max(0, supply - demand)

\* Line 89
Deficit(demand, supply) == Max(0, demand - supply)

\* The mutant of Withdraw: the supply is added to the tank, a sign slip.
WithdrawAdds(level, supply) == level + supply

\* Line 90
Withdraw(level, supply) == level - supply

\* Lines 74-108: one iteration of the day loop of invocation state s, with the
\* generator in state g when get_monthly_rainfall draws.  `filled` keeps the value
\* the local `storage` has between the clamp and the withdrawal, `supply` the
\* value of the local `supply`.
DayBody(s, c, g) ==
  LET rf      == get_monthly_rainfall(s.day, c.rainfall_mm_per_day, g)
      rain_L  == calculate_rainwater(rf, c.catchment_area_m2, c.runoff_coefficient)
      grey_L  == calculate_greywater(c.household_size, c.daily_water_use_L,
                                     c.greywater_fraction, c.greywater_recovery_rate)
      raw_in  == rain_L + grey_L
      treated == apply_treatment(raw_in, c.treatment_efficiency)
      demand  == c.household_size * c.daily_water_use_L * Unit
      added   == s.storage + treated
      level   == Clamp(added, Capacity(c))
      supply  == Supply(level, demand)
      deficit == Deficit(demand, supply)
      after   == Withdraw(level, supply)
  IN  [s EXCEPT
         !.day             = s.day + 1,
         !.filled          = level,
         !.supply          = supply,
         !.storage         = after,
         !.total_overflow  = s.total_overflow + Spill(added, Capacity(c)),
         !.total_rainwater = s.total_rainwater + rain_L,
         !.total_greywater = s.total_greywater + grey_L,
         !.total_treated   = s.total_treated + treated,
         !.total_demand    = s.total_demand + demand,
         !.total_deficit   = s.total_deficit + deficit,
         !.daily_log       = Append(s.daily_log,
                               [day |-> s.day, rainfall_L |-> rain_L,
                                greywater_L |-> grey_L, treated_L |-> treated,
                                storage_L |-> after, deficit_L |-> deficit])]

\* Line 112: supply_rate = total_supply / total_demand * 100, in tenths of a
\* percent after round(supply_rate, 1).
SupplyRateTenths(total_treated, total_demand) ==
  RoundHalfEven(total_treated * 1000, total_demand)

\* A mutant of SelfSufficiencyTenths: max written for min.
SelfSufficiencyFloored(total_treated, total_demand) ==
  Max(1000, SupplyRateTenths(total_treated, total_demand))

\* The mutant of SelfSufficiencyTenths: the cap at 100 is left out.
SelfSufficiencyUncapped(total_treated, total_demand) ==
  SupplyRateTenths(total_treated, total_demand)

\* Lines 116 and 129: round(min(100, supply_rate), 1), in tenths of a percent.
\* Rounding is monotone and 100 is a multiple of 0.1, so the minimum may be
\* taken after the rounding.
SelfSufficiencyTenths(total_treated, total_demand) ==
  Min(1000, SupplyRateTenths(total_treated, total_demand))

\* Lines 111-131: the returned dict (daily_log is the run's daily_log).
\* Litres are whole, percentages and kilograms in tenths, rupees in hundredths.
Summary(s, c) ==
  [total_rainwater_L     |-> RoundHalfEven(s.total_rainwater, Unit),
   total_greywater_L     |-> RoundHalfEven(s.total_greywater, Unit),
   total_treated_L       |-> RoundHalfEven(s.total_treated, Unit),
   total_demand_L        |-> RoundHalfEven(s.total_demand, Unit),
   total_deficit_L       |-> RoundHalfEven(s.total_deficit, Unit),
   total_overflow_L      |-> RoundHalfEven(s.total_overflow, Unit),
   supply_rate_pct       |-> SupplyRateTenths(s.total_treated, s.total_demand),
   annual_cost_saved_INR |-> RoundHalfEven(s.total_treated * c.cost_per_litre_INR, Unit),
   co2_offset_kg         |-> RoundHalfEven(s.total_treated * 5, Unit * 1000),
   avg_daily_recovery_L  |-> RoundHalfEven(s.total_treated, Unit * c.simulation_days),
   self_sufficiency_pct  |-> SelfSufficiencyTenths(s.total_treated, s.total_demand)]

----------------------------------------------------------------------------
(* Configs *)

\* The documented domain of a config: fractions in [0, 1] (0..2 halves),
\* non-negative area, capacity and count, at least one day.  simulate never
\* tests it.
InDomain(c) ==
  /\ c.catchment_area_m2 >= 0
  /\ c.storage_capacity_L >= 0
  /\ c.household_size >= 0
  /\ c.runoff_coefficient \in 0..2
  /\ c.greywater_fraction \in 0..2
  /\ c.greywater_recovery_rate \in 0..2
  /\ c.treatment_efficiency \in 0..2
  /\ c.simulation_days >= 1

\* A valid config: in its domain, and no negative depth, volume or price.
ValidConfig(c) ==
  /\ InDomain(c)
  /\ c.rainfall_mm_per_day >= 0
  /\ c.daily_water_use_L >= 0
  /\ c.cost_per_litre_INR >= 0

ValidConfigs ==
  [catchment_area_m2       : 0..MaxArea,
   rainfall_mm_per_day     : {0, 10},
   runoff_coefficient      : 0..2,
   household_size          : 0..MaxHousehold,
   daily_water_use_L       : {2},
   greywater_fraction      : 0..2,
   greywater_recovery_rate : 0..2,
   treatment_efficiency    : 0..2,
   storage_capacity_L      : {0, 1, 10},
   cost_per_litre_INR      : {9},
   simulation_days         : 1..MaxDays]

BaseConfig ==
  [catchment_area_m2 |-> 1, rainfall_mm_per_day |-> 10, runoff_coefficient |-> 2,
   household_size |-> 1, daily_water_use_L |-> 2, greywater_fraction |-> 1,
   greywater_recovery_rate |-> 2, treatment_efficiency |-> 2,
   storage_capacity_L |-> 1, cost_per_litre_INR |-> 9, simulation_days |-> 2]

\* BaseConfig with one field moved out of its range.
OtherConfigs ==
  {[BaseConfig EXCEPT !.catchment_area_m2 = -1],
   [BaseConfig EXCEPT !.rainfall_mm_per_day = -10],
   [BaseConfig EXCEPT !.runoff_coefficient = -1],
   [BaseConfig EXCEPT !.runoff_coefficient = 3],
   [BaseConfig EXCEPT !.household_size = -1],
   [BaseConfig EXCEPT !.daily_water_use_L = -2],
   [BaseConfig EXCEPT !.greywater_fraction = 3],
   [BaseConfig EXCEPT !.greywater_recovery_rate = 3],
   [BaseConfig EXCEPT !.treatment_efficiency = 3],
   [BaseConfig EXCEPT !.storage_capacity_L = -1],
   [BaseConfig EXCEPT !.simulation_days = 0],
   [BaseConfig EXCEPT !.simulation_days = -1]}

Configs == ValidConfigs \cup OtherConfigs

\* The configs of the interleaved runs: rain and greywater at full recovery.
SweepConfigs ==
  {c \in ValidConfigs :
     /\ c.catchment_area_m2 = MaxArea
     /\ c.rainfall_mm_per_day = 10
     /\ c.runoff_coefficient = 2
     /\ c.greywater_fraction = 1
     /\ c.greywater_recovery_rate = 2
     /\ c.treatment_efficiency = 2}

----------------------------------------------------------------------------
(* Actions *)

Finished(r) == run[r].pc \in {"done", "raised"}

Active(r) == run[r].pc = "loop"

\* Lines 59-71: simulate is entered; it seeds the process-wide generator.
Start(r) ==
  /\ run[r].pc = "idle"
  /\ rng' = Reseed(rng)
  /\ run' = [run EXCEPT ![r] = StartedRun(cfg)]
  /\ UNCHANGED <<cfg, doy, month, rainfall>>

\* Lines 73-108: one iteration of the day loop; get_monthly_rainfall draws from
\* the process-wide generator.
DayStep(r) ==
  /\ run[r].pc = "loop"
  /\ run[r].day <= cfg.simulation_days
  /\ run' = [run EXCEPT ![r] = DayBody(run[r], cfg, rng)]
  /\ rng' = Advance(rng)
  /\ UNCHANGED <<cfg, doy, month, rainfall>>

\* Line 112 with total_demand = 0.0: the division raises ZeroDivisionError.
Raise(r) ==
  /\ run[r].pc = "loop"
  /\ run[r].day > cfg.simulation_days
  /\ run[r].total_demand = 0
  /\ run' = [run EXCEPT ![r].pc = "raised"]
  /\ UNCHANGED <<cfg, rng, doy, month, rainfall>>

\* Lines 110-131: the loop is over, the summary is computed and returned.
Return(r) ==
  /\ run[r].pc = "loop"
  /\ run[r].day > cfg.simulation_days
  /\ run[r].total_demand # 0
  /\ run' = [run EXCEPT ![r].pc = "done", ![r].result = Summary(run[r], cfg)]
  /\ UNCHANGED <<cfg, rng, doy, month, rainfall>>

\* Other code of the process draws from module random while no run is active.
OtherDraw ==
  /\ \A r \in Runs : ~Active(r)
  /\ rng' = Advance(rng)
  /\ UNCHANGED <<cfg, run, doy, month, rainfall>>

\* A direct call get_monthly_rainfall(doy, base).
CallRainfall ==
  /\ month = 0
  /\ month' = MonthOf(doy)
  /\ rainfall' = get_monthly_rainfall(doy, cfg.rainfall_mm_per_day, rng)
  /\ rng' = Advance(rng)
  /\ UNCHANGED <<cfg, run, doy>>

----------------------------------------------------------------------------
(* Spec: one thread calls simulate(cfg) twice, one call after the other *)

Init ==
  /\ cfg \in Configs
  /\ rng \in RngStates
  /\ run = [r \in Runs |-> IdleRun]
  /\ doy = 1
  /\ month = 0
  /\ rainfall = 0

\* Invocation r is made when the earlier ones are over.
InOrder(r) == \A q \in Runs : q < r => Finished(q)

Next ==
  \/ \E r \in Runs : InOrder(r) /\ Start(r)
  \/ \E r \in Runs : DayStep(r)
  \/ \E r \in Runs : Raise(r)
  \/ \E r \in Runs : Return(r)
  \/ OtherDraw

Spec == Init /\ [][Next]_vars

(* SpecSweep: two threads call simulate(cfg), their day steps interleaved *)

InitSweep ==
  /\ cfg \in SweepConfigs
  /\ rng \in RngStates
  /\ run = [r \in Runs |-> IdleRun]
  /\ doy = 1
  /\ month = 0
  /\ rainfall = 0

NextSweep ==
  \/ \E r \in Runs : Start(r)
  \/ \E r \in Runs : DayStep(r)
  \/ \E r \in Runs : Raise(r)
  \/ \E r \in Runs : Return(r)

SpecSweep == InitSweep /\ [][NextSweep]_vars

(* SpecRainfall: get_monthly_rainfall called on a day of the year *)

InitRainfall ==
  /\ cfg = BaseConfig
  /\ rng = SeedState(Seed)
  /\ run = [r \in Runs |-> IdleRun]
  /\ doy \in 1..MaxDayOfYear
  /\ month = 0
  /\ rainfall = 0

NextRainfall == CallRainfall

SpecRainfall == InitRainfall /\ [][NextRainfall]_vars

----------------------------------------------------------------------------
(* Reading a run's log *)

\* The tank level at the start of day d of run r: the level the day before
\* left, or the initial 30 % on day 1.
StorageBefore(r, d) ==
  IF d = 1 THEN InitialStorage(cfg) ELSE run[r].daily_log[d - 1].storage_L

\* The demand of one day, in volume units.
DailyDemand == cfg.household_size * cfg.daily_water_use_L * Unit

Started(r) == run[r].pc # "idle"

----------------------------------------------------------------------------
(* C1 *)

\* C1: under a valid config the stored volume is within [0, capacity] in the
\* initial state of a run, after each day's inflow and clamp (filled), after
\* each day's withdrawal (storage), and in every record of the daily log.
C1_StorageWithinCapacity ==
  ValidConfig(cfg) =>
    \A r \in Runs :
      Started(r) =>
        /\ 0 <= run[r].storage /\ run[r].storage <= Capacity(cfg)
        /\ 0 <= run[r].filled /\ run[r].filled <= Capacity(cfg)
        /\ 0 <= InitialStorage(cfg) /\ InitialStorage(cfg) <= Capacity(cfg)
        /\ \A d \in DOMAIN run[r].daily_log :
             /\ 0 <= run[r].daily_log[d].storage_L
             /\ run[r].daily_log[d].storage_L <= Capacity(cfg)

\* A valid run in which the clamp cut the inflow and a withdrawal emptied the tank.
C1_Witness ==
  /\ ValidConfig(cfg)
  /\ Capacity(cfg) > 0
  /\ \E r \in Runs :
       /\ run[r].filled = Capacity(cfg)
       /\ run[r].total_overflow > 0
       /\ run[r].total_deficit > 0
       /\ run[r].storage = 0
       /\ Len(run[r].daily_log) >= 2

----------------------------------------------------------------------------
(* C2 *)

\* C2 as stated: on every day of a valid run
\* storage_after + deficit_today <= storage_before + treated_inflow.
C2_DeficitWithinInflow ==
  ValidConfig(cfg) =>
    \A r \in Runs : \A d \in DOMAIN run[r].daily_log :
      run[r].daily_log[d].storage_L + run[r].daily_log[d].deficit_L
        <= StorageBefore(r, d) + run[r].daily_log[d].treated_L

\* C2 as amended: on every day of a valid run
\* storage_after <= storage_before + treated_inflow and deficit_today <= demand.
C2_StorageWithinInflow ==
  ValidConfig(cfg) =>
    \A r \in Runs : \A d \in DOMAIN run[r].daily_log :
      /\ run[r].daily_log[d].storage_L
           <= StorageBefore(r, d) + run[r].daily_log[d].treated_L
      /\ run[r].daily_log[d].deficit_L <= DailyDemand

\* A valid run with a day that had inflow, met part of the demand and left a
\* deficit larger than all the water the tank had.
C2_Witness ==
  /\ ValidConfig(cfg)
  /\ \E r \in Runs : \E d \in DOMAIN run[r].daily_log :
       /\ d >= 2
       /\ run[r].daily_log[d].treated_L > 0
       /\ run[r].daily_log[d].deficit_L
            > StorageBefore(r, d) + run[r].daily_log[d].treated_L
       /\ run[r].daily_log[d].deficit_L < DailyDemand

----------------------------------------------------------------------------
(* C3 *)

\* C3: two runs of simulate with the same config (and the seed 42 simulate
\* fixes) agree: both return or both raise, with the same result fields and
\* the same ordered daily log; while the second run is under way its log is a
\* prefix of the first's, whatever the generator did between the runs.
C3_Deterministic ==
  Finished(1) =>
    /\ \A d \in DOMAIN run[2].daily_log :
         /\ d \in DOMAIN run[1].daily_log
         /\ run[2].daily_log[d] = run[1].daily_log[d]
    /\ Finished(2) =>
         /\ run[2].pc = run[1].pc
         /\ run[2].result = run[1].result
         /\ run[2].daily_log = run[1].daily_log

\* Both runs returned (the first left the generator past the seed's state), and
\* the rainfall drawn differs from day to day.
C3_Witness ==
  /\ run[1].pc = "done"
  /\ run[2].pc = "done"
  /\ Len(run[2].daily_log) >= 2
  /\ run[2].daily_log[1].rainfall_L > 0
  /\ run[2].daily_log[1].rainfall_L # run[2].daily_log[2].rainfall_L

----------------------------------------------------------------------------
(* C4 *)

RECURSIVE StreamAfter(_)
\* The generator after random.seed(42) and k draws.
StreamAfter(k) == IF k = 0 THEN Reseed(0) ELSE Advance(StreamAfter(k - 1))

RECURSIVE AloneAfter(_, _)
\* The locals of simulate(c) after n iterations of its loop when nothing else
\* uses the generator.
AloneAfter(c, n) ==
  IF n = 0 THEN StartedRun(c)
  ELSE DayBody(AloneAfter(c, n - 1), c, StreamAfter(n - 1))

\* C4: each run consumes its own stream in its own day order: whatever the
\* other run does in between, a run that has made n day steps is where it is
\* after n day steps alone, and its result is the result of the run alone.
C4_RunsIndependent ==
  \A r \in Runs :
    /\ Active(r) => run[r] = AloneAfter(cfg, Len(run[r].daily_log))
    /\ Finished(r) =>
         run[r].daily_log = AloneAfter(cfg, cfg.simulation_days).daily_log
    /\ run[r].pc = "done" =>
         run[r].result = Summary(AloneAfter(cfg, cfg.simulation_days), cfg)

----------------------------------------------------------------------------
(* C5 *)

\* C5: with household_size = 0 and days >= 1 simulate does not raise; it
\* returns supply_rate_pct = 0 and total_deficit_L = 0.
C5_ZeroDemandFallback ==
  (ValidConfig(cfg) /\ cfg.household_size = 0) =>
    \A r \in Runs :
      /\ run[r].pc # "raised"
      /\ run[r].pc = "done" =>
           /\ run[r].result.supply_rate_pct = 0
           /\ run[r].result.total_deficit_L = 0

----------------------------------------------------------------------------
(* C6 *)

\* C6: a config outside its domain is rejected before the first day: no day
\* step runs, no record is appended, no result is returned.
C6_RejectsBadConfig ==
  ~InDomain(cfg) =>
    \A r \in Runs :
      /\ run[r].daily_log = <<>>
      /\ run[r].day <= 1
      /\ run[r].pc # "done"

----------------------------------------------------------------------------
(* C7 *)

\* C7: for day_of_year >= 1 get_monthly_rainfall selects the month
\* clamp(1, 12, floor((day_of_year - 1) / 30) + 1).
C7_MonthOfDay ==
  month # 0 => month = Min(12, Max(1, ((doy - 1) \div 30) + 1))

----------------------------------------------------------------------------
(* C8 *)

\* C8 as stated: self_sufficiency_pct is the share of the demand met from the
\* tank, min(100, 100 * (total_demand - total_deficit) / total_demand), at the
\* one decimal the result is rounded to.
C8_ShareOfDemandMet ==
  ValidConfig(cfg) =>
    \A r \in Runs :
      (run[r].pc = "done" /\ run[r].total_demand > 0) =>
        run[r].result.self_sufficiency_pct =
          Min(1000, RoundHalfEven(1000 * (run[r].total_demand - run[r].total_deficit),
                                  run[r].total_demand))

\* C8 as amended: self_sufficiency_pct is the treated water as a share of the
\* demand, capped at 100: 100 when total_treated >= total_demand, else
\* 100 * total_treated / total_demand rounded to one decimal.
C8_TreatedShareCapped ==
  ValidConfig(cfg) =>
    \A r \in Runs :
      (run[r].pc = "done" /\ run[r].total_demand > 0) =>
        run[r].result.self_sufficiency_pct =
          IF run[r].total_treated >= run[r].total_demand
          THEN 1000
          ELSE RoundHalfEven(1000 * run[r].total_treated, run[r].total_demand)

\* A valid run that returned with more treated water than demand, and still
\* left part of the demand unmet.
C8_Witness ==
  /\ ValidConfig(cfg)
  /\ \E r \in Runs :
       /\ run[r].pc = "done"
       /\ run[r].total_treated > run[r].total_demand
       /\ run[r].total_deficit > 0
       /\ run[r].result.self_sufficiency_pct = 1000

----------------------------------------------------------------------------
(* C9 *)

RECURSIVE SpilledUpTo(_, _)
\* The sum over days 1..n of run r of max(0, storage_before + treated - capacity).
SpilledUpTo(r, n) ==
  IF n = 0 THEN 0
  ELSE SpilledUpTo(r, n - 1)
         + Max(0, StorageBefore(r, n) + run[r].daily_log[n].treated_L - Capacity(cfg))

\* C9: the cumulative overflow is the sum over the days simulated so far of
\* max(0, storage_before + treated_inflow - capacity); when the initial storage
\* plus the inflow of day 1 exceeds the capacity, it is > 0 from day 1 on.
C9_OverflowCounted ==
  \A r \in Runs :
    /\ run[r].total_overflow = SpilledUpTo(r, Len(run[r].daily_log))
    /\ (/\ Len(run[r].daily_log) >= 1
        /\ InitialStorage(cfg) + run[r].daily_log[1].treated_L > Capacity(cfg))
         => run[r].total_overflow > 0

\* A valid run whose day 1 spilled and whose day 2 did not.
C9_Witness ==
  /\ ValidConfig(cfg)
  /\ \E r \in Runs :
       /\ Len(run[r].daily_log) >= 2
       /\ InitialStorage(cfg) + run[r].daily_log[1].treated_L > Capacity(cfg)
       /\ StorageBefore(r, 2) + run[r].daily_log[2].treated_L <= Capacity(cfg)
       /\ run[r].daily_log[2].treated_L > 0
       /\ run[r].total_overflow > 0

----------------------------------------------------------------------------
(* C10 *)

\* C10: a run with simulation_days = N >= 1 ends by returning, after exactly N
\* day steps, a daily log of N records with day fields 1..N in order.
C10_ReturnsFullLog ==
  (ValidConfig(cfg) /\ cfg.simulation_days >= 1) =>
    \A r \in Runs :
      Finished(r) =>
        /\ run[r].pc = "done"
        /\ run[r].day = cfg.simulation_days + 1
        /\ Len(run[r].daily_log) = cfg.simulation_days
        /\ \A d \in DOMAIN run[r].daily_log : run[r].daily_log[d].day = d

----------------------------------------------------------------------------
(* C11 *)

\* C11: for a valid config with total_demand > 0 the returned
\* self_sufficiency_pct lies in [0, 100], also when the treated water exceeds
\* the demand (supply_rate_pct > 100).
C11_SelfSufficiencyBounded ==
  ValidConfig(cfg) =>
    \A r \in Runs :
      (run[r].pc = "done" /\ run[r].total_demand > 0) =>
        /\ 0 <= run[r].result.self_sufficiency_pct
        /\ run[r].result.self_sufficiency_pct <= 1000

\* A valid run that returned a supply rate above 100 %.
C11_Witness ==
  /\ ValidConfig(cfg)
  /\ \E r \in Runs :
       /\ run[r].pc = "done"
       /\ run[r].total_demand > 0
       /\ run[r].result.supply_rate_pct > 1000
       /\ run[r].result.self_sufficiency_pct = 1000

----------------------------------------------------------------------------
(* C12 *)

\* C12: under a valid config no step of simulate lowers a running total:
\* total_rainwater, total_greywater, total_treated, total_demand,
\* total_deficit and total_overflow of a run are non-decreasing from one state
\* of the run to the next.
C12_TotalsMonotone ==
  [][ValidConfig(cfg) =>
       \A r \in Runs :
         Started(r) =>
           /\ run'[r].total_rainwater >= run[r].total_rainwater
           /\ run'[r].total_greywater >= run[r].total_greywater
           /\ run'[r].total_treated   >= run[r].total_treated
           /\ run'[r].total_demand    >= run[r].total_demand
           /\ run'[r].total_deficit   >= run[r].total_deficit
           /\ run'[r].total_overflow  >= run[r].total_overflow]_vars

\* A valid run of three days in which rainwater, greywater, deficit and
\* overflow all grew after day 1, and whose third day drew a negative noise
\* factor (its rainfall is 0 although the base rainfall is not).
C12_Witness ==
  /\ ValidConfig(cfg)
  /\ cfg.rainfall_mm_per_day > 0
  /\ \E r \in Runs :
       /\ Len(run[r].daily_log) = 3
       /\ run[r].daily_log[1].rainfall_L > 0
       /\ run[r].daily_log[3].rainfall_L = 0
       /\ run[r].total_rainwater > run[r].daily_log[1].rainfall_L
       /\ run[r].total_greywater > run[r].daily_log[1].greywater_L
       /\ run[r].total_deficit > run[r].daily_log[1].deficit_L
       /\ run[r].total_overflow > 0

----------------------------------------------------------------------------
(* C13 *)

\* Run r makes a day step from this state to the next.
DayStepOf(r) == Len(run'[r].daily_log) = Len(run[r].daily_log) + 1

\* The record the day step of run r appends.
NewRecord(r) == run'[r].daily_log[Len(run'[r].daily_log)]

\* C13: water is accounted for exactly.  At every day step
\* storage_before + treated_inflow = storage_after + supplied + spilled_today
\* and demand = supplied + deficit_today; after any number of days
\* 0.30 * capacity + total_treated
\*   = storage + (total_demand - total_deficit) + total_overflow;
\* and a day records a deficit > 0 only when it leaves the tank empty.
C13_WaterAccounted ==
  /\ [](\A r \in Runs :
          Started(r) =>
            /\ InitialStorage(cfg) + run[r].total_treated
                 = run[r].storage + (run[r].total_demand - run[r].total_deficit)
                     + run[r].total_overflow
            /\ \A d \in DOMAIN run[r].daily_log :
                 run[r].daily_log[d].deficit_L > 0 => run[r].daily_log[d].storage_L = 0)
  /\ [][\A r \in Runs :
          DayStepOf(r) =>
            /\ run[r].storage + NewRecord(r).treated_L
                 = NewRecord(r).storage_L + run'[r].supply
                     + (run'[r].total_overflow - run[r].total_overflow)
            /\ DailyDemand = run'[r].supply + NewRecord(r).deficit_L
            /\ run'[r].storage = NewRecord(r).storage_L]_vars

\* A valid run whose latest day spilled, supplied part of the demand, left a
\* deficit and an empty tank, after an earlier day.
C13_Witness ==
  /\ ValidConfig(cfg)
  /\ \E r \in Runs :
       /\ Len(run[r].daily_log) >= 2
       /\ run[r].filled = Capacity(cfg)
       /\ run[r].supply > 0
       /\ run[r].supply < DailyDemand
       /\ run[r].daily_log[Len(run[r].daily_log)].deficit_L > 0
       /\ run[r].daily_log[Len(run[r].daily_log)].treated_L > Capacity(cfg)
       /\ run[r].storage = 0

============================================================================
